---- MODULE Spec2Model ----
(***************************************************************************)
(* A model of the markdown rendering pipeline of src/unnamed/part_000      *)
(* (useMarked.ts): the heading post-processor getHtmlStr, the shared flat  *)
(* anchor list state.anchorsFlat, the derived forest state.anchorsTree and *)
(* the entry point useMarked.                                              *)
(*                                                                         *)
(* A string is a sequence of code points.  A code point is written as a    *)
(* one-character string; the code points outside ASCII that the code      *)
(* treats specially are written by name: "U+1F600" is an emoji (matched by *)
(* the emoji-regex package), "U+FEFF" the byte-order mark; "U+0060" is the *)
(* backtick, which a TLA+ string cannot hold.                              *)
(***************************************************************************)
EXTENDS Integers, Sequences, FiniteSets, TLC

VARIABLES
  anchorsFlat,  \* state.anchorsFlat: the shared flat anchor list
  ret,          \* what the last useMarked call returned (or that it threw)
  call,         \* the last call's arguments and the heading scan's log
  calls,        \* the number of useMarked calls made so far
  rendered,     \* the code renderer's arguments and, once it ran, its result
  linked,       \* the link renderer's last arguments and its result
  flights,      \* useMarked calls taken step by step: where each one stands
  cache,        \* the computed anchorsTree: its dirty flag and its arrays
  isDark,       \* the isDark ref
  watcher,      \* the watcher of isDark: its old value, whether it is queued
  disabled,     \* the disabled flags of prismLight and prismDark
  head,         \* the children of document.head, in order
  records,      \* the mutation records waiting for the observer's callback
  htmlClass,    \* the theme class of document.documentElement
  sets,         \* the number of assignments made to isDark.value
  changes,      \* the number of changes others made to head's children
  handler       \* the handler that ran last

stepVars == <<flights, cache>>

themeVars ==
  <<isDark, watcher, disabled, head, records, htmlClass, sets, changes,
    handler>>

vars ==
  <<anchorsFlat, ret, call, calls, rendered, linked, stepVars, themeVars>>

----------------------------------------------------------------------------
(* Character classes of the regular expressions.                           *)

UpperLetters == <<"A","B","C","D","E","F","G","H","I","J","K","L","M",
                  "N","O","P","Q","R","S","T","U","V","W","X","Y","Z">>

LowerLetters == <<"a","b","c","d","e","f","g","h","i","j","k","l","m",
                  "n","o","p","q","r","s","t","u","v","w","x","y","z">>

UpperSet == {UpperLetters[i] : i \in 1..26}

LowerSet == {LowerLetters[i] : i \in 1..26}

DigitSet == {"0","1","2","3","4","5","6","7","8","9"}

\* \s
SpaceSet == {" ", "\t", "\n", "\r"}

\* [\s-]
SpaceHyphenSet == SpaceSet \cup {"-"}

\* what "." does not match (no s flag)
LineTerminators == {"\n", "\r"}

\* \w
WordSet == UpperSet \cup LowerSet \cup DigitSet \cup {"_"}

\* the code points the regular expression of the emoji-regex package matches
EmojiSet == {"U+1F600"}

\* /^[\u200B\u200C\u200D\u200E\u200F\uFEFF]/
ZeroWidthSet == {"U+200B", "U+200C", "U+200D", "U+200E", "U+200F", "U+FEFF"}

\* the value of a digit character
DigitValue(c) ==
  CASE c = "0" -> 0 [] c = "1" -> 1 [] c = "2" -> 2 [] c = "3" -> 3
    [] c = "4" -> 4 [] c = "5" -> 5 [] c = "6" -> 6 [] c = "7" -> 7
    [] c = "8" -> 8 [] c = "9" -> 9

DigitChar(n) ==
  CASE n = 0 -> "0" [] n = 1 -> "1" [] n = 2 -> "2" [] n = 3 -> "3"
    [] n = 4 -> "4" [] n = 5 -> "5" [] n = 6 -> "6" [] n = 7 -> "7"
    [] n = 8 -> "8" [] n = 9 -> "9"

\* String.prototype.toLowerCase, one code point
LowerChar(c) ==
  IF c \in UpperSet
    THEN LowerLetters[CHOOSE i \in 1..26 : UpperLetters[i] = c]
    ELSE c

toLowerCase(s) == [i \in 1..Len(s) |-> LowerChar(s[i])]

----------------------------------------------------------------------------
(* String helpers.  Positions are 1-based; 0 stands for "not found".       *)

Slice(s, a, b) == IF a > b THEN <<>> ELSE SubSeq(s, a, b)

RECURSIVE Flatten(_)
Flatten(ss) == IF ss = <<>> THEN <<>> ELSE Head(ss) \o Flatten(Tail(ss))

\* the literal lit stands in s at position p
LitAt(s, p, lit) ==
  /\ p >= 1
  /\ p + Len(lit) - 1 <= Len(s)
  /\ \A k \in 1..Len(lit) : s[p + k - 1] = lit[k]

\* the same under the i flag
LitAtI(s, p, lit) ==
  /\ p >= 1
  /\ p + Len(lit) - 1 <= Len(s)
  /\ \A k \in 1..Len(lit) : LowerChar(s[p + k - 1]) = LowerChar(lit[k])

\* the first position >= p of s holding a code point of set S
RECURSIVE IndexIn(_, _, _)
IndexIn(s, S, p) ==
  IF p > Len(s) THEN 0
  ELSE IF s[p] \in S THEN p
  ELSE IndexIn(s, S, p + 1)

\* the first position >= p of s holding a code point outside S
RECURSIVE IndexNotIn(_, _, _)
IndexNotIn(s, S, p) ==
  IF p > Len(s) THEN 0
  ELSE IF s[p] \notin S THEN p
  ELSE IndexNotIn(s, S, p + 1)

\* the last position <= p of s holding a code point outside S
RECURSIVE LastIndexNotIn(_, _, _)
LastIndexNotIn(s, S, p) ==
  IF p < 1 THEN 0
  ELSE IF s[p] \notin S THEN p
  ELSE LastIndexNotIn(s, S, p - 1)

\* the first position >= p of s where lit stands
RECURSIVE IndexOfLit(_, _, _)
IndexOfLit(s, lit, p) ==
  IF p + Len(lit) - 1 > Len(s) THEN 0
  ELSE IF LitAt(s, p, lit) THEN p
  ELSE IndexOfLit(s, lit, p + 1)

\* s.replace(/^[S]*|[S]*$/g, ''): both ends trimmed of the code points of S
TrimSet(s, S) ==
  LET a == IndexNotIn(s, S, 1)
  IN  IF a = 0 THEN <<>> ELSE SubSeq(s, a, LastIndexNotIn(s, S, Len(s)))

\* s with every code point of S removed
RemoveSet(s, S) == SelectSeq(s, LAMBDA c : c \notin S)

\* s.replace(/\s+/g, '-'): every run of white space becomes one hyphen
RECURSIVE HyphenateRuns(_, _)
HyphenateRuns(s, p) ==
  IF p > Len(s) THEN <<>>
  ELSE IF s[p] \in SpaceSet
    THEN LET q == IndexNotIn(s, SpaceSet, p)
         IN  <<"-">> \o (IF q = 0 THEN <<>> ELSE HyphenateRuns(s, q))
    ELSE <<s[p]>> \o HyphenateRuns(s, p + 1)

\* s split at every occurrence of the code point c
RECURSIVE SplitAt(_, _, _)
SplitAt(s, c, p) ==
  LET q == IndexIn(s, {c}, p)
  IN  IF q = 0 THEN <<Slice(s, p, Len(s))>>
      ELSE <<Slice(s, p, q - 1)>> \o SplitAt(s, c, q + 1)

\* the strings of ss joined with sep between them
RECURSIVE Join(_, _)
Join(ss, sep) ==
  IF ss = <<>> THEN <<>>
  ELSE IF Len(ss) = 1 THEN ss[1]
  ELSE ss[1] \o sep \o Join(Tail(ss), sep)

----------------------------------------------------------------------------
\* The heading scan of getHtmlStr (\x22 is the double quote):
\*   /<h(\d{1})\s{1}(?:id=\x22([^\x22]*)\x22)?[^>]*>(.*?)<\/h\1>/gim

NoMatch == [ok |-> FALSE]

\* (.*?)<\/h\1> from p on: the first position where the closing tag of
\* level d stands, provided no line terminator comes before it
RECURSIVE CloseTagFrom(_, _, _)
CloseTagFrom(s, d, p) ==
  IF p > Len(s) THEN 0
  ELSE IF LitAtI(s, p, <<"<", "/", "h", d, ">">>) THEN p
  ELSE IF s[p] \in LineTerminators THEN 0
  ELSE CloseTagFrom(s, d, p + 1)

\* [^>]*>(.*?)<\/h\1> from p on: <<position of the >, position of the closing tag>>
HeadingRest(s, d, p) ==
  LET g == IndexIn(s, {">"}, p)
  IN  IF g = 0 THEN <<0, 0>> ELSE <<g, CloseTagFrom(s, d, g + 1)>>

\* the heading pattern with the white space after the level digit made
\* optional (\s? for \s{1}): a tag without attributes is matched as well
HeadingAtAnyTag(s, i) ==
  IF ~ /\ i + 3 <= Len(s)
       /\ s[i] = "<"
       /\ LowerChar(s[i + 1]) = "h"
       /\ s[i + 2] \in DigitSet
       /\ s[i + 3] \in SpaceSet \cup {">"}
    THEN NoMatch
    ELSE LET d == s[i + 2]
             o == IF s[i + 3] \in SpaceSet THEN i + 4 ELSE i + 3
             q == IF LitAtI(s, o, <<"i", "d", "=", "\"">>)
                    THEN IndexIn(s, {"\""}, o + 4) ELSE 0
             A == IF q = 0 THEN <<0, 0>> ELSE HeadingRest(s, d, q + 1)
             B == HeadingRest(s, d, o)
         IN  IF A[2] # 0
               THEN [ok |-> TRUE, start |-> i, end |-> A[2] + 4, level |-> d,
                     hasId |-> TRUE, id |-> Slice(s, o + 4, q - 1),
                     text |-> Slice(s, A[1] + 1, A[2] - 1)]
             ELSE IF B[2] # 0
               THEN [ok |-> TRUE, start |-> i, end |-> B[2] + 4, level |-> d,
                     hasId |-> FALSE, id |-> <<>>,
                     text |-> Slice(s, B[1] + 1, B[2] - 1)]
             ELSE NoMatch

\* the match of the heading pattern that starts at position i, if any: the
\* optional id group is tried first, and skipped when the rest fails with it
HeadingAt(s, i) ==
  IF ~ /\ i + 3 <= Len(s)
       /\ s[i] = "<"
       /\ LowerChar(s[i + 1]) = "h"
       /\ s[i + 2] \in DigitSet
       /\ s[i + 3] \in SpaceSet
    THEN NoMatch
    ELSE LET d == s[i + 2]
             q == IF LitAtI(s, i + 4, <<"i", "d", "=", "\"">>)
                    THEN IndexIn(s, {"\""}, i + 8) ELSE 0
             A == IF q = 0 THEN <<0, 0>> ELSE HeadingRest(s, d, q + 1)
             B == HeadingRest(s, d, i + 4)
         IN  IF A[2] # 0
               THEN [ok |-> TRUE, start |-> i, end |-> A[2] + 4, level |-> d,
                     hasId |-> TRUE, id |-> Slice(s, i + 8, q - 1),
                     text |-> Slice(s, A[1] + 1, A[2] - 1)]
             ELSE IF B[2] # 0
               THEN [ok |-> TRUE, start |-> i, end |-> B[2] + 4, level |-> d,
                     hasId |-> FALSE, id |-> <<>>,
                     text |-> Slice(s, B[1] + 1, B[2] - 1)]
             ELSE NoMatch

\* the leftmost match at or after position p (the g flag's next match)
RECURSIVE NextHeading(_, _)
NextHeading(s, p) ==
  LET i == IndexIn(s, {"<"}, p)
  IN  IF i = 0 THEN NoMatch
      ELSE LET m == HeadingAt(s, i)
           IN  IF m.ok THEN m ELSE NextHeading(s, i + 1)

\* every match of the pattern in s, left to right, from position p on
RECURSIVE MatchesFrom(_, _)
MatchesFrom(s, p) ==
  LET m == NextHeading(s, p)
  IN  IF ~ m.ok THEN <<>> ELSE <<m>> \o MatchesFrom(s, m.end + 1)

----------------------------------------------------------------------------
(* The replace callback of getHtmlStr.                                     *)

\* /^<(\w+)([^>]*)>/.test(text)
StartsWithTag(text) ==
  /\ Len(text) >= 3
  /\ text[1] = "<"
  /\ text[2] \in WordSet
  /\ IndexIn(text, {">"}, 3) # 0

\* the length of the run of \w code points that starts at position p
RECURSIVE WordRun(_, _)
WordRun(t, p) ==
  IF p > Len(t) \/ t[p] \notin WordSet THEN 0 ELSE 1 + WordRun(t, p + 1)

\* (.*?)<\/\1> from p on, for the captured name
RECURSIVE CloseNameFrom(_, _, _)
CloseNameFrom(t, name, p) ==
  IF p > Len(t) THEN 0
  ELSE IF LitAt(t, p, <<"<", "/">> \o name \o <<">">>) THEN p
  ELSE IF t[p] \in LineTerminators THEN 0
  ELSE CloseNameFrom(t, name, p + 1)

\* /<(\w+)[^>]*>(.*?)<\/\1>/ at position i with a name of k code points,
\* then k - 1, ...: the greedy \w+ gives code points back to [^>]*
RECURSIVE ElemTry(_, _, _, _)
ElemTry(t, i, k, g) ==
  IF k = 0 THEN NoMatch
  ELSE LET name == SubSeq(t, i + 1, i + k)
           e == CloseNameFrom(t, name, g + 1)
       IN  IF e # 0
             THEN [ok |-> TRUE, start |-> i, end |-> e + k + 2,
                   inner |-> Slice(t, g + 1, e - 1)]
             ELSE ElemTry(t, i, k - 1, g)

ElemAt(t, i) ==
  IF i > Len(t) \/ t[i] # "<" THEN NoMatch
  ELSE LET w == WordRun(t, i + 1)
           g == IndexIn(t, {">"}, i + 2)
       IN  IF w = 0 \/ g = 0 THEN NoMatch ELSE ElemTry(t, i, w, g)

\* the leftmost match of the element pattern at or after position p
RECURSIVE FirstElem(_, _)
FirstElem(t, p) ==
  LET i == IndexIn(t, {"<"}, p)
  IN  IF i = 0 THEN NoMatch
      ELSE LET m == ElemAt(t, i)
           IN  IF m.ok THEN m ELSE FirstElem(t, i + 1)

\* text.replace(/<(\w+)([^>]*)>(.*?)<\/\1>/g, '')
RECURSIVE RemoveElems(_, _)
RemoveElems(t, p) ==
  LET m == FirstElem(t, p)
  IN  IF ~ m.ok THEN Slice(t, p, Len(t))
      ELSE Slice(t, p, m.start - 1) \o RemoveElems(t, m.end + 1)

\* const textNoTag = ...: threw stands for the TypeError of null[2]
textNoTag(text) ==
  IF StartsWithTag(text)
    THEN LET m == FirstElem(text, 1)
         IN  IF m.ok THEN [threw |-> FALSE, value |-> TrimSet(m.inner, SpaceSet)]
             ELSE [threw |-> TRUE, value |-> <<>>]
    ELSE [threw |-> FALSE, value |-> RemoveElems(text, 1)]

\* const idNoEmoji = ...: an empty captured id is falsy
idNoEmoji(hasId, id, text) ==
  IF hasId /\ id # <<>>
    THEN TrimSet(RemoveSet(id, EmojiSet), SpaceHyphenSet)
    ELSE HyphenateRuns(toLowerCase(text), 1)

\* raw.match(/<h\d{1}\s{1}([^>]*)>/): no i flag, not anchored
RECURSIVE OpenTagFrom(_, _)
OpenTagFrom(raw, p) ==
  LET i == IndexIn(raw, {"<"}, p)
  IN  IF i = 0 THEN NoMatch
      ELSE IF /\ i + 3 <= Len(raw)
              /\ raw[i + 1] = "h"
              /\ raw[i + 2] \in DigitSet
              /\ raw[i + 3] \in SpaceSet
              /\ IndexIn(raw, {">"}, i + 4) # 0
        THEN [ok |-> TRUE,
              attrs |-> Slice(raw, i + 4, IndexIn(raw, {">"}, i + 4) - 1)]
        ELSE OpenTagFrom(raw, i + 1)

\* attrs.replace(/(id=\x22([^\x22]+)[^\x22]\x22)?/, ''): the optional group is tried at
\* position 0 only, and needs an id value of two code points or more
RemoveIdAttr(attrs) ==
  LET q == IF LitAt(attrs, 1, <<"i", "d", "=", "\"">>)
             THEN IndexIn(attrs, {"\""}, 5) ELSE 0
  IN  IF q # 0 /\ q - 5 >= 2 THEN Slice(attrs, q + 1, Len(attrs)) ELSE attrs

\* const attrsNoId = ...: threw stands for the TypeError of null[1]
attrsNoId(raw) ==
  LET m == OpenTagFrom(raw, 1)
  IN  IF m.ok THEN [threw |-> FALSE, value |-> RemoveIdAttr(m.attrs)]
      ELSE [threw |-> TRUE, value |-> <<>>]

\* the replace callback (raw, level, id, text) => ...: the anchor it pushes
\* and the holes of the template string it returns
Callback(raw, level, hasId, id, text) ==
  LET title == textNoTag(text)
      newId == idNoEmoji(hasId, id, text)
      attrs == attrsNoId(raw)
  IN  IF title.threw \/ attrs.threw THEN [threw |-> TRUE]
      ELSE [threw |-> FALSE,
            anchor |-> [title |-> title.value,
                        href |-> <<"#">> \o newId,
                        level |-> level],
            part |-> [kind |-> "heading", level |-> level,
                      attrsNoId |-> attrs.value, idNoEmoji |-> newId,
                      text |-> text]]

\* unshift for push: the anchor goes to the front of the list
PushFront(list, anchor) == <<anchor>> \o list

\* state.anchorsFlat.push(anchor)
Push(list, anchor) == Append(list, anchor)

\* the scan resumed one position too far after every match
RECURSIVE ScanFromSkip(_, _, _)
ScanFromSkip(s, p, flat) ==
  LET m == NextHeading(s, p)
  IN  IF ~ m.ok
        THEN [flat |-> flat, threw |-> FALSE, log |-> <<>>,
              parts |-> <<[kind |-> "text", text |-> Slice(s, p, Len(s))]>>]
      ELSE LET cb == Callback(SubSeq(s, m.start, m.end), m.level, m.hasId,
                              m.id, m.text)
           IN  IF cb.threw
                 THEN [flat |-> flat, threw |-> TRUE, log |-> <<m>>,
                       parts |-> <<>>]
               ELSE LET r == ScanFromSkip(s, m.end + 2, Push(flat, cb.anchor))
                    IN  [flat |-> r.flat, threw |-> r.threw,
                         log |-> <<m>> \o r.log,
                         parts |-> <<[kind |-> "text",
                                      text |-> Slice(s, p, m.start - 1)],
                                     cb.part>> \o r.parts]

\* str.replace(/<h.../gim, callback) from position p on, with the shared
\* list as it stands: the list after the pushes, the pieces of the returned
\* string, the matches handed to the callback, and whether it threw
RECURSIVE ScanFrom(_, _, _)
ScanFrom(s, p, flat) ==
  LET m == NextHeading(s, p)
  IN  IF ~ m.ok
        THEN [flat |-> flat, threw |-> FALSE, log |-> <<>>,
              parts |-> <<[kind |-> "text", text |-> Slice(s, p, Len(s))]>>]
      ELSE LET cb == Callback(SubSeq(s, m.start, m.end), m.level, m.hasId,
                              m.id, m.text)
           IN  IF cb.threw
                 THEN [flat |-> flat, threw |-> TRUE, log |-> <<m>>,
                       parts |-> <<>>]
               ELSE LET r == ScanFrom(s, m.end + 1, Push(flat, cb.anchor))
                    IN  [flat |-> r.flat, threw |-> r.threw,
                         log |-> <<m>> \o r.log,
                         parts |-> <<[kind |-> "text",
                                      text |-> Slice(s, p, m.start - 1)],
                                     cb.part>> \o r.parts]

\* the pieces of the template string the callback returns
HeadId ==
  <<" ", "i", "d", "=", "\"">>

HeadClass ==
  <<"\"", " ", "c", "l", "a", "s", "s", "=", "\"", "a", "n", "t", "-", "t",
    "y", "p", "o", "g", "r", "a", "p", "h", "y", "\"", ">">>

HeadAnchor ==
  <<"\n", " ", " ", " ", " ", " ", " ", " ", " ", " ", " ", " ", " ", " ",
    " ", " ", " ", " ", " ", " ", " ", "<", "a", " ", "i", "d", "=", "\"",
    "u", "s", "e", "r", "-", "c", "o", "n", "t", "e", "n", "t", "-">>

HeadName ==
  <<"\"", " ", "n", "a", "m", "e", "=", "\"">>

HeadHash ==
  <<"\"", " ", "c", "l", "a", "s", "s", "=", "\"", "a", "n", "c", "h", "o",
    "r", "\"", ">", "\n", " ", " ", " ", " ", " ", " ", " ", " ", " ", " ",
    " ", " ", " ", " ", " ", " ", " ", " ", " ", " ", " ", " ", "<", "s",
    "p", "a", "n", " ", "d", "a", "t", "a", "-", "t", "y", "p", "e", "=",
    "\"", "a", "n", "c", "h", "o", "r", "\"", " ", "d", "a", "t", "a", "-",
    "h", "a", "s", "h", "=", "\"", "#">>

HeadSpan ==
  <<"\"", " ", "c", "l", "a", "s", "s", "=", "\"", "i", "c", "o", "n", "f",
    "o", "n", "t", " ", "i", "c", "o", "n", "-", "p", "i", "n", "\"", ">",
    "<", "/", "s", "p", "a", "n", ">", "\n", " ", " ", " ", " ", " ", " ",
    " ", " ", " ", " ", " ", " ", " ", " ", " ", " ", " ", " ", " ", " ",
    "<", "/", "a", ">", "\n", " ", " ", " ", " ", " ", " ", " ", " ", " ",
    " ", " ", " ", " ", " ", " ", " ", " ", " ", " ", " ", "<", "s", "p",
    "a", "n", ">">>

HeadClose ==
  <<"<", "/", "s", "p", "a", "n", ">", "\n", " ", " ", " ", " ", " ", " ",
    " ", " ", " ", " ", " ", " ", " ", " ", " ", " ", " ", " ", "<", "/",
    "h">>

\* <h${level} ${attrsNoId} id="${idNoEmoji}" class="ant-typography">
HeadingOpenTag(part) ==
  <<"<", "h", part.level, " ">> \o part.attrsNoId \o HeadId \o
  part.idNoEmoji \o HeadClass

\* a template that names the marker after the heading's text
HeadingOutText(part) ==
  HeadingOpenTag(part) \o HeadAnchor \o part.idNoEmoji \o HeadName \o
  part.text \o HeadHash \o part.idNoEmoji \o HeadSpan \o part.text \o
  HeadClose \o <<part.level, ">">>

\* the string the callback returns for one matched heading
HeadingOut(part) ==
  HeadingOpenTag(part) \o HeadAnchor \o part.idNoEmoji \o HeadName \o
  part.idNoEmoji \o HeadHash \o part.idNoEmoji \o HeadSpan \o part.text \o
  HeadClose \o <<part.level, ">">>

\* the string str.replace returns: the text between the matches as it
\* stands, and for every match what the callback returned
RECURSIVE contentStr(_)
contentStr(parts) ==
  IF parts = <<>> THEN <<>>
  ELSE (IF Head(parts).kind = "heading" THEN HeadingOut(Head(parts))
        ELSE Head(parts).text) \o contentStr(Tail(parts))

----------------------------------------------------------------------------
(* state.anchorsTree: the computed forest of the flat list.                *)

\* cur.level <= res[0].level: both levels are one-digit strings, whose
\* order as strings is the order of their values
LevelLeq(a, b) == DigitValue(a) <= DigitValue(b)

\* the comparison made strict: an anchor of the level of the first node
\* goes under the last node
IsTopLevelStrict(res, cur) ==
  res = <<>> \/ DigitValue(cur.level) < DigitValue(res[1].level)

\* the comparison made with the last top-level node, not the first
IsTopLevelLast(res, cur) ==
  res = <<>> \/ LevelLeq(cur.level, res[Len(res)].level)

\* !res.length || cur.level <= res[0].level
IsTopLevel(res, cur) == res = <<>> \/ LevelLeq(cur.level, res[1].level)

\* res.push({ ...cur, children: [] })
PushTop(res, cur) ==
  Append(res, [title |-> cur.title, href |-> cur.href, level |-> cur.level,
               children |-> <<>>])

\* the children of the last node replaced by cur, not extended with it
PushChildOnly(res, cur) == [res EXCEPT ![Len(res)].children = <<cur>>]

\* cur pushed under the first top-level node, not the last
PushChildFirst(res, cur) == [res EXCEPT ![1].children = Append(@, cur)]

\* res[res.length - 1].children.push({ ...cur })
PushChild(res, cur) == [res EXCEPT ![Len(res)].children = Append(@, cur)]

\* list.reduce((res, cur) => ..., []) from element i on
RECURSIVE Reduce(_, _, _)
Reduce(list, i, res) ==
  IF i > Len(list) THEN res
  ELSE Reduce(list, i + 1,
              IF IsTopLevel(res, list[i]) THEN PushTop(res, list[i])
              ELSE PushChild(res, list[i]))

anchorsTree(list) == Reduce(list, 1, <<>>)

\* a write the computed depends on that leaves it clean
KeepClean(cch) == cch

\* a write to state.anchorsFlat, the assignment of a new array or a push,
\* triggers the computed: it is dirty until it is read again
Invalidate(cch) == [cch EXCEPT !.dirty = TRUE]

\* a getter that rebuilds the forest in the array it returned before
EvaluateInPlace(cch, list) ==
  IF ~ cch.dirty THEN cch
  ELSE IF cch.value = 0
         THEN [dirty |-> FALSE, value |-> 1, arrays |-> <<anchorsTree(list)>>]
       ELSE [cch EXCEPT !.dirty = FALSE,
                        !.arrays[cch.value] = anchorsTree(list)]

\* a read of state.anchorsTree: a dirty computed runs its getter, whose
\* reduce builds the forest in a new array, and keeps it; a clean one
\* gives the array it kept
Evaluate(cch, list) ==
  IF ~ cch.dirty THEN cch
  ELSE [dirty |-> FALSE, value |-> Len(cch.arrays) + 1,
        arrays |-> Append(cch.arrays, anchorsTree(list))]

----------------------------------------------------------------------------
(* The custom renderer handed to the parser: link and code.                *)

\* link(href, title, text): the anchor tag with the fixed class; title is
\* not used
LinkOpen ==
  <<"<", "a", " ", "c", "l", "a", "s", "s", "=", "\"", "a", "n", "t", "-",
    "t", "y", "p", "o", "g", "r", "a", "p", "h", "y", "\"", " ", "h", "r",
    "e", "f", "=", "\"">>

\* the link with its title attribute, as the parser's own renderer writes it
renderLinkTitle(href, title, text) ==
  LinkOpen \o href \o <<"\"">>
  \o (IF title = <<>> THEN <<>>
      ELSE <<" ", "t", "i", "t", "l", "e", "=", "\"">> \o title \o <<"\"">>)
  \o <<">">> \o text \o <<"<", "/", "a", ">">>

renderLink(href, title, text) ==
  LinkOpen \o href \o <<"\"", ">">> \o text \o <<"<", "/", "a", ">">>

LanguagePrefix == <<"l", "a", "n", "g", "u", "a", "g", "e", "-">>

\* /^\s*$/.test(cur) && arr.length === 1 ? 'language-none' : 'language-' + cur
LangClass(cur, n) ==
  IF IndexNotIn(cur, SpaceSet, 1) = 0 /\ n = 1
    THEN LanguagePrefix \o <<"n", "o", "n", "e">>
    ELSE LanguagePrefix \o cur

\* langs.reduce(...).join(' ')
langsPrefix(langs) ==
  Join([i \in 1..Len(langs) |-> LangClass(langs[i], Len(langs))], <<" ">>)

\* every line feed counted, the one that ends the string too
linesNumAll(code) == Cardinality({i \in 1..Len(code) : code[i] = "\n"}) + 1

\* code.match(/\n(?!$)/g): the line feeds that do not end the string
linesNum(code) ==
  Cardinality({i \in 1..Len(code) : code[i] = "\n" /\ i # Len(code)}) + 1

RowSpan ==
  <<"<", "s", "p", "a", "n", ">", "<", "/", "s", "p", "a", "n", ">">>

RowsOpen ==
  <<"<", "s", "p", "a", "n", " ", "a", "r", "i", "a", "-", "h", "i", "d",
    "d", "e", "n", "=", "\"", "t", "r", "u", "e", "\"", " ", "c", "l", "a",
    "s", "s", "=", "\"", "l", "i", "n", "e", "-", "n", "u", "m", "b", "e",
    "r", "s", "-", "r", "o", "w", "s", "\"", ">">>

\* new Array(n + 1).join('<span></span>')
RECURSIVE Rows(_)
Rows(n) == IF n = 0 THEN <<>> ELSE RowSpan \o Rows(n - 1)

lineNumbersWrapper(code) ==
  RowsOpen \o Rows(linesNum(code)) \o <<"<", "/", "s", "p", "a", "n", ">">>

\* the names n with Prism.languages[n] set: the grammars of the prismjs
\* core and of prism-typescript, of which these stand for all
PrismLanguages ==
  {<<"t", "s">>, <<"j", "s">>, <<"h", "t", "m", "l">>, <<"c", "s", "s">>}

\* Prism.highlight: the code with & and < encoded; the token spans a
\* grammar adds are not modelled
RECURSIVE PrismHighlight(_)
PrismHighlight(code) ==
  IF code = <<>> THEN <<>>
  ELSE (CASE Head(code) = "&" -> <<"&", "a", "m", "p", ";">>
          [] Head(code) = "<" -> <<"&", "l", "t", ";">>
          [] OTHER -> <<Head(code)>>) \o PrismHighlight(Tail(code))

\* the grammar looked up under any token, not under the first
HighlightedAny(code, langs) ==
  IF \E i \in 1..Len(langs) : langs[i] \in PrismLanguages
    THEN PrismHighlight(code) ELSE code

\* const md = langs.filter(Boolean).length && Prism.languages[langs[0]] ? ...
Highlighted(code, langs) ==
  IF (\E i \in 1..Len(langs) : langs[i] # <<>>) /\ langs[1] \in PrismLanguages
    THEN PrismHighlight(code) ELSE code

CodeOpen ==
  <<"\n", " ", " ", " ", " ", " ", " ", "<", "d", "i", "v", " ", "c", "l",
    "a", "s", "s", "=", "\"", "c", "o", "d", "e", "_", "w", "r", "a", "p",
    "\"", ">", "\n", " ", " ", " ", " ", " ", " ", " ", " ", "<", "b", "u",
    "t", "t", "o", "n", " ", "d", "a", "t", "a", "-", "t", "y", "p", "e",
    "=", "\"", "c", "o", "p", "y", "\"", ">", "c", "o", "p", "y", "<", "/",
    "b", "u", "t", "t", "o", "n", ">", "\n", " ", " ", " ", " ", " ", " ",
    " ", " ", "<", "p", "r", "e", " ", "c", "l", "a", "s", "s", "=", "\"",
    "l", "i", "n", "e", "-", "n", "u", "m", "b", "e", "r", "s", " ">>

CodeClassOpen ==
  <<"\"", ">", "<", "c", "o", "d", "e", " ", "c", "l", "a", "s", "s", "=",
    "\"">>

CodeBodyOpen ==
  <<"\"", ">", "\n", " ", " ", " ", " ", " ", " ", " ", " ", " ", " ">>

CodeClose ==
  <<"\n", " ", " ", " ", " ", " ", " ", " ", " ", "<", "/", "c", "o", "d",
    "e", ">", "<", "/", "p", "r", "e", ">", "\n", " ", " ", " ", " ", " ",
    " ", "<", "/", "d", "i", "v", ">">>

\* renderer.code(code, infostring, escaped)
renderCode(code, infostring) ==
  LET langs == SplitAt(infostring, ",", 1)
  IN  CodeOpen \o langsPrefix(langs) \o CodeClassOpen \o langsPrefix(langs)
      \o CodeBodyOpen \o Highlighted(code, langs) \o lineNumbersWrapper(code)
      \o CodeClose

----------------------------------------------------------------------------
(* The external markdown parser, parse of marked ^4.3.0 (src/README.md),   *)
(* as far as the documents below need it: the block rules for blank lines, *)
(* fenced code, ATX headings, HTML blocks of the heading tags and          *)
(* paragraphs; the inline rule for *emphasis*, inline HTML passing through *)
(* as it is; the heading ids of its Slugger.  Escaping of text and the     *)
(* other constructs are left out: the documents hold none.                 *)

IsBlank(line) == IndexNotIn(line, {" ", "\t"}, 1) = 0

\* the number of # that begin the line
HashRun(line) ==
  LET i == IndexNotIn(line, {"#"}, 1)
  IN  IF i = 0 THEN Len(line) ELSE i - 1

IsHeadingLine(line) ==
  LET n == HashRun(line)
  IN  n \in 1..6 /\ (Len(line) = n \/ line[n + 1] \in {" ", "\t"})

Fence == <<"U+0060", "U+0060", "U+0060">>

IsFenceLine(line) == LitAt(line, 1, Fence)

\* the closing fence: backticks only, three or more
IsFenceClose(line) ==
  /\ IsFenceLine(line)
  /\ IndexNotIn(TrimSet(line, {" ", "\t"}), {"U+0060"}, 1) = 0

\* the tags that begin an HTML block (of marked's list, those used below)
BlockTags == {<<"h", "1">>, <<"h", "2">>, <<"h", "3">>, <<"h", "4">>,
              <<"h", "5">>, <<"h", "6">>, <<"d", "i", "v">>, <<"p">>}

IsHtmlStart(line) ==
  /\ Len(line) >= 2
  /\ line[1] = "<"
  /\ LET o == IF line[2] = "/" THEN 3 ELSE 2
         w == WordRun(line, o)
         after == o + w
     IN  /\ toLowerCase(Slice(line, o, after - 1)) \in BlockTags
         /\ \/ after > Len(line)
            \/ line[after] \in {" ", ">"}
            \/ LitAt(line, after, <<"/", ">">>)

StartsBlock(line) ==
  IsBlank(line) \/ IsHeadingLine(line) \/ IsFenceLine(line) \/ IsHtmlStart(line)

LineIs(line, what) ==
  CASE what = "blank" -> IsBlank(line)
    [] what = "close" -> IsFenceClose(line)
    [] what = "block" -> StartsBlock(line)

\* the first line at or after i that is what, or Len(lines) + 1
RECURSIVE FirstLine(_, _, _)
FirstLine(lines, i, what) ==
  IF i > Len(lines) \/ LineIs(lines[i], what) THEN i
  ELSE FirstLine(lines, i + 1, what)

\* the inline rule: *x* becomes open x close
RECURSIVE InlineWith(_, _, _, _)
InlineWith(t, p, open, close) ==
  IF p > Len(t) THEN <<>>
  ELSE LET q == IF t[p] = "*" /\ p + 1 <= Len(t) /\ t[p + 1] \notin SpaceSet \cup {"*"}
                  THEN IndexIn(t, {"*"}, p + 2) ELSE 0
       IN  IF q # 0 /\ t[q - 1] \notin SpaceSet
             THEN open \o Slice(t, p + 1, q - 1) \o close
                  \o InlineWith(t, q + 1, open, close)
             ELSE <<t[p]>> \o InlineWith(t, p + 1, open, close)

Inline(t) == InlineWith(t, 1, <<"<", "e", "m", ">">>, <<"<", "/", "e", "m", ">">>)

\* the text a heading's slug is made of (marked's TextRenderer)
InlineText(t) == InlineWith(t, 1, <<>>, <<>>)

\* the text of an ATX heading: trimmed, a closing run of # dropped
HeadingText(line) ==
  LET t == TrimSet(Slice(line, HashRun(line) + 1, Len(line)), SpaceSet)
      k == LastIndexNotIn(t, {"#"}, Len(t))
      cut == Slice(t, 1, k)
  IN  IF t # <<>> /\ t[Len(t)] = "#" /\ (cut = <<>> \/ cut[Len(cut)] = " ")
        THEN TrimSet(cut, SpaceSet) ELSE t

\* Slugger.serialize: the punctuation it removes
SlugPunctuation ==
  {"'", "!", "\"", "#", "$", "%", "&", "(", ")", "*", "+", ",", ".", "/",
   ":", ";", "<", "=", ">", "?", "@", "[", "\\", "]", "^", "U+0060", "{", "|",
   "}", "~"} \cup (ZeroWidthSet \ {"U+FEFF"})

\* .replace(/<[!\/a-z].*?>/ig, '')
RECURSIVE RemoveTags(_, _)
RemoveTags(t, p) ==
  LET i == IndexIn(t, {"<"}, p)
      g == IF i = 0 THEN 0 ELSE IndexIn(t, {">"}, i + 2)
  IN  IF i = 0 THEN Slice(t, p, Len(t))
      ELSE IF /\ g # 0
              /\ LowerChar(t[i + 1]) \in LowerSet \cup {"!", "/"}
              /\ IndexIn(Slice(t, i, g), LineTerminators, 1) = 0
        THEN Slice(t, p, i - 1) \o RemoveTags(t, g + 1)
        ELSE Slice(t, p, i) \o RemoveTags(t, i + 1)

SlugSerialize(t) ==
  LET noTags == RemoveTags(TrimSet(toLowerCase(t), SpaceSet), 1)
      noPunct == RemoveSet(noTags, SlugPunctuation)
  IN  [i \in 1..Len(noPunct) |->
         IF noPunct[i] \in SpaceSet THEN "-" ELSE noPunct[i]]

\* Slugger.getNextSafeSlug: seen maps the slugs given out to their counters
RECURSIVE NextSafe(_, _, _)
NextSafe(slug, n, seen) ==
  LET cand == slug \o <<"-", DigitChar(n)>>
  IN  IF cand \in DOMAIN seen THEN NextSafe(slug, n + 1, seen) ELSE n

Slug(t, seen) ==
  LET slug == SlugSerialize(t)
      n == IF slug \in DOMAIN seen THEN NextSafe(slug, seen[slug] + 1, seen) ELSE 0
      out == IF n = 0 THEN slug ELSE slug \o <<"-", DigitChar(n)>>
  IN  [id |-> out,
       seen |-> [x \in DOMAIN seen \cup {slug, out} |->
                   IF x = out THEN 0 ELSE IF x = slug THEN n ELSE seen[x]]]

\* Renderer.heading with headerIds
HeadingHtml(depth, id, text) ==
  <<"<", "h", DigitChar(depth), " ", "i", "d", "=", "\"">> \o id
  \o <<"\"", ">">> \o text \o <<"<", "/", "h", DigitChar(depth), ">", "\n">>

ParagraphHtml(text) ==
  <<"<", "p", ">">> \o text \o <<"<", "/", "p", ">", "\n">>

\* the blocks of lines from line i on, fences rendered by the custom renderer
RECURSIVE Blocks(_, _, _)
Blocks(lines, i, seen) ==
  IF i > Len(lines) THEN <<>>
  ELSE LET line == lines[i] IN
    IF IsBlank(line) THEN Blocks(lines, i + 1, seen)
    ELSE IF IsFenceLine(line) THEN
      LET j == FirstLine(lines, i + 1, "close")
      IN  renderCode(Join(SubSeq(lines, i + 1, j - 1), <<"\n">>),
                     TrimSet(Slice(line, 4, Len(line)), SpaceSet))
          \o Blocks(lines, j + 1, seen)
    ELSE IF IsHeadingLine(line) THEN
      LET t == HeadingText(line)
          sl == Slug(InlineText(t), seen)
      IN  HeadingHtml(HashRun(line), sl.id, Inline(t))
          \o Blocks(lines, i + 1, sl.seen)
    ELSE IF IsHtmlStart(line) THEN
      LET j == FirstLine(lines, i + 1, "blank")
      IN  Join(SubSeq(lines, i, j - 1), <<"\n">>)
          \o (IF j <= Len(lines) THEN <<"\n">> ELSE <<>>)
          \o Blocks(lines, j + 1, seen)
    ELSE
      LET j == FirstLine(lines, i + 1, "block")
      IN  ParagraphHtml(Inline(Join(SubSeq(lines, i, j - 1), <<"\n">>)))
          \o Blocks(lines, j, seen)

\* parse(src, { renderer: Object.assign(new Renderer(), renderer) })
parse(src) == Blocks(SplitAt(src, "\n", 1), 1, <<>>)

----------------------------------------------------------------------------
(* getHtmlStr and useMarked.                                               *)

\* value.replace(/^[\u200B\u200C\u200D\u200E\u200F\uFEFF]/, '')
StripZeroWidth(value) ==
  IF value # <<>> /\ value[1] \in ZeroWidthSet THEN Tail(value) ELSE value

\* getHtmlStr(value) with the shared list as it stands: parse runs first,
\* then value ? str.replace(...) : ''; parses lists the texts handed to
\* the parser
getHtmlStr(value, flat) ==
  LET src == StripZeroWidth(value)
      str == parse(src)
  IN  IF value # <<>>
        THEN [str |-> str, parses |-> <<src>>] @@ ScanFrom(str, 1, flat)
        ELSE [str |-> str, parses |-> <<src>>, flat |-> flat,
              threw |-> FALSE, log |-> <<>>, parts |-> <<>>]

\* title.match(/^([^\.]*)|([^\.]+)$/g)[1] ?? '': the first match is the text
\* before the first dot, the second the text after the last dot, if any
TitleExtension(title) ==
  LET dots == {i \in 1..Len(title) : title[i] = "."}
      last == CHOOSE i \in dots : \A j \in dots : j <= i
  IN  IF dots = {} THEN <<>> ELSE Slice(title, last + 1, Len(title))

\* .replace('vue', 'html'): the first occurrence
ReplaceVue(lang) ==
  LET i == IndexOfLit(lang, <<"v", "u", "e">>, 1)
  IN  IF i = 0 THEN lang
      ELSE Slice(lang, 1, i - 1) \o <<"h", "t", "m", "l">>
           \o Slice(lang, i + 3, Len(lang))

\* the test made without the i flag
IsMdExact(lang) == lang = <<"m", "d">>

\* /^md$/i.test(lang)
IsMd(lang) == toLowerCase(lang) = <<"m", "d">>

\* isMarkdown ? value : the value between fences tagged lang
mdStr(value, lang) ==
  IF IsMd(lang) THEN value
  ELSE Fence \o lang \o <<"\n">> \o value \o <<"\n">> \o Fence

\* the list kept as the call found it
KeepFlat(flat) == flat

\* state.anchorsFlat = []
ResetFlat(flat) == <<>>

NoReturn ==
  [status |-> "none", content |-> <<>>, anchors |-> <<>>, isMarkdown |-> FALSE]

NoCall ==
  [value |-> <<>>, title |-> <<>>, before |-> <<>>, parses |-> <<>>,
   str |-> <<>>, log |-> <<>>]

\* the code renderer has not been called
NoRender == [code |-> <<>>, infostring |-> <<>>, done |-> FALSE, html |-> <<>>]

\* the link renderer has not been called
NoLink ==
  [href |-> <<>>, title |-> <<>>, text |-> <<>>, done |-> FALSE, html |-> <<>>]

\* useMarked(value, title): one call, run to its end; a TypeError of the
\* replace callback leaves the call without a return value.  call keeps
\* the arguments, the shared list on entry, the parser's output and the
\* matches handed to the callback
useMarked(value, title) ==
  LET lang == ReplaceVue(TitleExtension(title))
  IN  \E r \in {getHtmlStr(mdStr(value, lang), ResetFlat(anchorsFlat))} :
        /\ calls' = calls + 1
        /\ UNCHANGED <<rendered, linked, stepVars, themeVars>>
        /\ anchorsFlat' = r.flat
        /\ call' = [value |-> value, title |-> title, before |-> anchorsFlat,
                    parses |-> r.parses, str |-> r.str, log |-> r.log]
        /\ ret' = IF r.threw
                    THEN [NoReturn EXCEPT !.status = "threw"]
                    ELSE [status |-> "returned", content |-> r.parts,
                          anchors |-> anchorsTree(r.flat),
                          isMarkdown |-> IsMd(lang)]

----------------------------------------------------------------------------
(* The documents and name hints the calls are made with.                   *)

\* the longest document of Docs, in lines
MaxBlocks == 3

\* the most calls of one run
MaxCalls == 3

\* the longest flat list of Lists, and its deepest level
MaxList == 5

MaxLevel == 4

\* the longest code string handed to the code renderer
MaxCode == 3

\* the number of calls that may be under way at once
MaxFlights == 2

\* the number of assignments to isDark.value
MaxSets == 3

\* the number of changes that others make to the children of head
MaxChanges == 2

\* a call that has not begun
Idle ==
  [pc |-> "idle", own |-> <<>>, todo |-> <<>>, throws |-> FALSE,
   anchors |-> 0, alone |-> TRUE]

\* no call is taken step by step, and the computed tree, which is lazy,
\* has not been evaluated: it is dirty and has built no array
NoFlights ==
  /\ flights = [c \in 1..MaxFlights |-> Idle]
  /\ cache = [dirty |-> TRUE, value |-> 0, arrays |-> <<>>]

\* the theme state once the module is loaded: both style elements were
\* appended to head, neither is disabled, isDark is false and its watcher,
\* which is not immediate, has not run; the appends were made before the
\* observer was set up and left no record
Loaded ==
  /\ isDark = FALSE
  /\ watcher = [old |-> FALSE, queued |-> FALSE]
  /\ disabled = [light |-> FALSE, dark |-> FALSE]
  /\ head = <<"light", "dark">>
  /\ records = <<>>
  /\ htmlClass = ""
  /\ sets = 0
  /\ changes = 0
  /\ handler = "load"

\* the default of the title parameter, '.md'
DefaultTitle == <<".", "m", "d">>

\* the lines of the documents: the empty line, ATX headings (plain, with
\* emphasis, with an emoji, with an unclosed inline tag) and raw HTML
\* headings (without attributes, without id, with an id that needs
\* trimming, with the id after another attribute, of level 7)
Lines ==
  {
    <<>>,
    <<"#", " ", "A">>,
    <<"#", "#", " ", "B">>,
    <<"#", " ", "C">>,
    <<"#", "#", " ", "*", "B", "*", " ", "c">>,
    <<"#", " ", "C", "a", "f", " ", "U+1F600">>,
    <<"#", " ", "<", "b", "r", ">", "x">>,
    <<"<", "h", "1", ">", "X", "<", "/", "h", "1", ">">>,
    <<"<", "h", "2", " ", "c", "l", "a", "s", "s", "=", "\"", "c", "\"",
      ">", "Y", " ", " ", "z", "<", "/", "h", "2", ">">>,
    <<"<", "h", "2", " ", "c", "l", "a", "s", "s", "=", "\"", "c", "\"",
      ">", "x", " ", "<", "e", "m", ">", "B", "<", "/", "e", "m", ">", "<",
      "/", "h", "2", ">">>,
    <<"<", "h", "2", " ", "i", "d", "=", "\"", "-", "w", " ", "U+1F600",
      "-", "\"", ">", "<", "e", "m", ">", " ", "W", " ", "<", "/", "e",
      "m", ">", "<", "/", "h", "2", ">">>,
    <<"<", "h", "2", " ", "c", "l", "a", "s", "s", "=", "\"", "c", "\"",
      " ", "i", "d", "=", "\"", "x", "\"", ">", "T", "<", "/", "h", "2",
      ">">>,
    <<"<", "h", "7", " ", "i", "d", "=", "\"", "s", "\"", ">", "S", "<",
      "/", "h", "7", ">">>
  }

\* the sequences of at most n lines
RECURSIVE LineSeqs(_)
LineSeqs(n) ==
  IF n = 0 THEN {<<>>}
  ELSE LineSeqs(n - 1)
       \cup {Append(ls, l) : ls \in {x \in LineSeqs(n - 1) : Len(x) = n - 1},
                             l \in Lines}

Docs == {Join(ls, <<"\n">>) : ls \in LineSeqs(MaxBlocks)}

\* the texts of the repeated calls
Values ==
  {
    <<>>,
    <<"#", " ", "A">>,
    <<"#", " ", "A", "\n", "#", "#", " ", "B", "\n", "#", " ", "C">>,
    <<"#", "#", " ", "*", "B", "*", " ", "c">>,
    <<"#", " ", "<", "b", "r", ">", "x">>,
    <<"<", "h", "7", " ", "i", "d", "=", "\"", "s", "\"", ">", "S", "<",
      "/", "h", "7", ">">>,
    <<"<", "h", "1", ">", "X", "<", "/", "h", "1", ">", "\n", "\n", "#",
      " ", "C", "a", "f", " ", "U+1F600">>,
    <<"<", "h", "2", " ", "c", "l", "a", "s", "s", "=", "\"", "c", "\"",
      ">", "Y", " ", " ", "z", "<", "/", "h", "2", ">">>,
    <<"U+FEFF", "#", " ", "A">>,
    <<"U+0060", "U+0060", "U+0060", "\n", "<", "h", "1", " ", "i", "d",
      "=", "\"", "q", "\"", ">", "Q", "<", "/", "h", "1", ">">>
  }

\* the name hints of the repeated calls
Titles ==
  {
    <<".", "m", "d">>,
    <<"a", ".", "M", "D">>,
    <<"a", ".", "t", "s">>,
    <<"a", ".", "t", "x", "t">>,
    <<"R", "E", "A", "D", "M", "E">>,
    <<"m", "d">>,
    <<"a", ".", "b", ".", "m", "d">>,
    <<"a", ".", "v", "u", "e">>
  }

\* the state after the module is loaded
Init ==
  /\ anchorsFlat = <<>>
  /\ ret = NoReturn
  /\ call = NoCall
  /\ calls = 0
  /\ rendered = NoRender
  /\ linked = NoLink
  /\ NoFlights
  /\ Loaded

\* a caller converts a text under a name hint
Convert ==
  /\ calls < MaxCalls
  /\ \E value \in Values, title \in Titles : useMarked(value, title)

Next == Convert

Spec == Init /\ [][Next]_vars

\* the first conversion after the module is loaded, of any document, under
\* the default name hint
FirstCall ==
  /\ calls = 0
  /\ \E value \in Docs : useMarked(value, DefaultTitle)

NextScan == FirstCall

SpecScan == Init /\ [][NextScan]_vars

\* the flat lists of at most n anchors with levels 1..MaxLevel, the i-th
\* anchor titled t<i>
RECURSIVE Lists(_)
Lists(n) ==
  IF n = 0 THEN {<<>>}
  ELSE Lists(n - 1)
       \cup {Append(l, [title |-> <<"t", DigitChar(n)>>,
                        href |-> <<"#", "t", DigitChar(n)>>,
                        level |-> DigitChar(v)]) :
               l \in {x \in Lists(n - 1) : Len(x) = n - 1}, v \in 1..MaxLevel}

\* the flat list holds any anchors
InitTree ==
  /\ anchorsFlat \in Lists(MaxList)
  /\ ret = NoReturn
  /\ call = NoCall
  /\ calls = 0
  /\ rendered = NoRender
  /\ linked = NoLink
  /\ NoFlights
  /\ Loaded

\* state.anchorsTree is read
ReadTree ==
  /\ ret.status = "none"
  /\ ret' = [NoReturn EXCEPT !.status = "returned",
                             !.anchors = anchorsTree(anchorsFlat)]
  /\ UNCHANGED <<anchorsFlat, call, calls, rendered, linked, stepVars,
                 themeVars>>

NextTree == ReadTree

SpecTree == InitTree /\ [][NextTree]_vars

\* the code strings of at most n code points
RECURSIVE Codes(_)
Codes(n) ==
  IF n = 0 THEN {<<>>}
  ELSE Codes(n - 1)
       \cup {Append(c, x) : c \in {y \in Codes(n - 1) : Len(y) = n - 1},
                            x \in {"a", "<", "\n"}}

\* the infostrings: none, blank, one language, several, empty tokens
Infostrings ==
  {<<>>, <<" ">>, <<"t", "s">>, <<"z", "z">>, <<"t", "s", ",", "j", "s">>,
   <<"z", "z", ",", "t", "s">>, <<"t", "s", ",">>, <<",", "t", "s">>,
   <<",">>, <<" ", ",", "t", "s">>}

\* the parser is about to hand a code block to the renderer
InitCode ==
  /\ anchorsFlat = <<>>
  /\ ret = NoReturn
  /\ call = NoCall
  /\ calls = 0
  /\ \E code \in Codes(MaxCode), infostring \in Infostrings :
       rendered = [NoRender EXCEPT !.code = code, !.infostring = infostring]
  /\ linked = NoLink
  /\ NoFlights
  /\ Loaded

\* renderer.code(code, infostring) runs
RenderCode ==
  /\ ~ rendered.done
  /\ rendered' = [rendered EXCEPT
                    !.done = TRUE,
                    !.html = renderCode(rendered.code, rendered.infostring)]
  /\ UNCHANGED <<anchorsFlat, ret, call, calls, linked, stepVars, themeVars>>

NextCode == RenderCode

SpecCode == InitCode /\ [][NextCode]_vars

\* the arguments of the link renderer; the empty title stands for none
Hrefs == {<<"#", "a">>, <<"u">>}

LinkTitles == {<<>>, <<"t">>}

LinkTexts == {<<"x">>, <<"<", "b", ">", "x", "<", "/", "b", ">">>}

\* the parser is about to render links and code blocks, the shared list
\* holding at most one anchor
InitPure ==
  /\ anchorsFlat \in Lists(1)
  /\ ret = NoReturn
  /\ call = NoCall
  /\ calls = 0
  /\ rendered = NoRender
  /\ linked = NoLink
  /\ NoFlights
  /\ Loaded

\* renderer.link(href, title, text) runs
CallLink ==
  /\ \E href \in Hrefs, title \in LinkTitles, text \in LinkTexts :
       linked' = [href |-> href, title |-> title, text |-> text,
                  done |-> TRUE, html |-> renderLink(href, title, text)]
  /\ UNCHANGED <<anchorsFlat, ret, call, calls, rendered, stepVars,
                 themeVars>>

\* renderer.code(code, infostring) runs on a code string of one code point
\* at most
CallCode ==
  /\ \E code \in Codes(1), infostring \in Infostrings :
       rendered' = [code |-> code, infostring |-> infostring, done |-> TRUE,
                    html |-> renderCode(code, infostring)]
  /\ UNCHANGED <<anchorsFlat, ret, call, calls, linked, stepVars, themeVars>>

NextPure == CallLink \/ CallCode

SpecPure == InitPure /\ [][NextPure]_vars

----------------------------------------------------------------------------
(* useMarked taken step by step: the reset, each push of the heading       *)
(* callback, and the read of the tree at the return. Nothing in the code   *)
(* keeps a call from beginning while another one is under way.             *)

\* the documents of the calls taken step by step
StepValues ==
  {
    <<>>,
    <<"#", " ", "A">>,
    <<"#", " ", "A", "\n", "#", "#", " ", "B", "\n", "#", " ", "C">>,
    <<"#", "#", " ", "*", "B", "*", " ", "c">>,
    <<"#", " ", "<", "b", "r", ">", "x">>
  }

InitSteps ==
  /\ anchorsFlat = <<>>
  /\ ret = NoReturn
  /\ call = NoCall
  /\ calls = 0
  /\ rendered = NoRender
  /\ linked = NoLink
  /\ NoFlights
  /\ Loaded

Scanning(c) == flights[c].pc = "scan"

\* call c begins: the list is reset, and the anchors the callback will push
\* are those of the headings of the call's own HTML
Start(c) ==
  /\ ~ Scanning(c)
  /\ calls < MaxCalls
  /\ \E value \in StepValues :
       \E r \in {getHtmlStr(mdStr(value, ReplaceVue(TitleExtension(
                                                       DefaultTitle))),
                             <<>>)} :
         flights' = [d \in 1..MaxFlights |->
                       IF d = c
                         THEN [pc |-> "scan", own |-> <<>>, todo |-> r.flat,
                               throws |-> r.threw, anchors |-> 0,
                               alone |-> \A e \in 1..MaxFlights :
                                           ~ Scanning(e)]
                       ELSE IF Scanning(d)
                              THEN [flights[d] EXCEPT !.alone = FALSE]
                            ELSE flights[d]]
  /\ anchorsFlat' = ResetFlat(anchorsFlat)
  /\ cache' = Invalidate(cache)
  /\ calls' = calls + 1
  /\ UNCHANGED <<ret, call, rendered, linked, themeVars>>

\* the callback of call c pushes the anchor of its next heading
PushNext(c) ==
  /\ Scanning(c)
  /\ flights[c].todo # <<>>
  /\ anchorsFlat' = Push(anchorsFlat, Head(flights[c].todo))
  /\ cache' = Invalidate(cache)
  /\ flights' = [flights EXCEPT ![c].own = Append(@, Head(flights[c].todo)),
                                ![c].todo = Tail(@)]
  /\ UNCHANGED <<ret, call, calls, rendered, linked, themeVars>>

\* the callback of call c throws on its next heading: the call ends
\* without reading the tree
Throw(c) ==
  /\ Scanning(c)
  /\ flights[c].todo = <<>>
  /\ flights[c].throws
  /\ flights' = [flights EXCEPT ![c].pc = "threw"]
  /\ UNCHANGED <<anchorsFlat, cache, ret, call, calls, rendered, linked,
                 themeVars>>

\* call c returns: it reads state.anchorsTree
Return(c) ==
  /\ Scanning(c)
  /\ flights[c].todo = <<>>
  /\ ~ flights[c].throws
  /\ \E cch \in {Evaluate(cache, anchorsFlat)} :
       /\ cache' = cch
       /\ flights' = [flights EXCEPT ![c].pc = "done",
                                     ![c].anchors = cch.value]
  /\ UNCHANGED <<anchorsFlat, ret, call, calls, rendered, linked, themeVars>>

NextSteps ==
  \E c \in 1..MaxFlights : Start(c) \/ PushNext(c) \/ Throw(c) \/ Return(c)

SpecSteps == InitSteps /\ [][NextSteps]_vars

----------------------------------------------------------------------------
(* The theme: isDark and its watcher, the two style elements, and the      *)
(* observer of document.head.                                              *)

\* the nodes that are put under head: the two style elements and a node
\* of somebody else
Nodes == {"light", "dark", "x"}

\* the theme classes document.documentElement is given
Classes == {"", "light", "dark"}

InHead(h, n) == \E i \in 1..Len(h) : h[i] = n

Without(h, n) == SelectSeq(h, LAMBDA m : m # n)

\* the record of a childList mutation
Added(n) == [addedNodes |-> {n}, removedNodes |-> {}]

Removed(n) == [addedNodes |-> {}, removedNodes |-> {n}]

\* document.head.appendChild(n): a node that is a child already is
\* removed first, then n is inserted last; each step queues its record
appendChild(dom, n) ==
  [head |-> Append(Without(dom.head, n), n),
   records |-> dom.records
               \o (IF InHead(dom.head, n) THEN <<Removed(n)>> ELSE <<>>)
               \o <<Added(n)>>]

\* mutations.some((n) => Array.from(n.addedNodes).includes(el))
hasCustomStyleEl(mutations, el) ==
  \E i \in 1..Len(mutations) : el \in mutations[i].addedNodes

InitTheme ==
  /\ anchorsFlat = <<>>
  /\ ret = NoReturn
  /\ call = NoCall
  /\ calls = 0
  /\ rendered = NoRender
  /\ linked = NoLink
  /\ NoFlights
  /\ Loaded

\* isDark.value = v: an assignment of another value queues the watcher's
\* job, an assignment of the value the ref holds triggers nothing
SetDark ==
  /\ sets < MaxSets
  /\ \E v \in BOOLEAN :
       /\ isDark' = v
       /\ watcher' = IF v # isDark THEN [watcher EXCEPT !.queued = TRUE]
                     ELSE watcher
  /\ sets' = sets + 1
  /\ handler' = "set"
  /\ UNCHANGED <<anchorsFlat, ret, call, calls, rendered, linked, stepVars,
                 disabled, head, records, htmlClass, changes>>

\* a watcher whose callback flips the two flags
RunWatcherFlip ==
  /\ watcher.queued
  /\ watcher' = [old |-> isDark, queued |-> FALSE]
  /\ IF isDark # watcher.old
       THEN /\ disabled' = [light |-> ~ disabled.light,
                            dark |-> ~ disabled.dark]
            /\ handler' = "watch"
     ELSE /\ handler' = "flush"
          /\ UNCHANGED disabled
  /\ UNCHANGED <<anchorsFlat, ret, call, calls, rendered, linked, stepVars,
                 isDark, head, records, htmlClass, sets, changes>>

\* the queued job of the watcher runs: when the value differs from the one
\* the watcher saw last, the callback runs with the value
RunWatcher ==
  /\ watcher.queued
  /\ watcher' = [old |-> isDark, queued |-> FALSE]
  /\ IF isDark # watcher.old
       THEN /\ disabled' = [light |-> isDark, dark |-> ~ isDark]
            /\ handler' = "watch"
     ELSE /\ handler' = "flush"
          /\ UNCHANGED disabled
  /\ UNCHANGED <<anchorsFlat, ret, call, calls, rendered, linked, stepVars,
                 isDark, head, records, htmlClass, sets, changes>>

\* somebody else appends a node to head: a new node, or one that is a
\* child already
ExternalAppend ==
  /\ changes < MaxChanges
  /\ \E n \in Nodes :
       \E dom \in {appendChild([head |-> head, records |-> records], n)} :
         /\ head' = dom.head
         /\ records' = dom.records
  /\ changes' = changes + 1
  /\ handler' = "append"
  /\ UNCHANGED <<anchorsFlat, ret, call, calls, rendered, linked, stepVars,
                 isDark, watcher, disabled, htmlClass, sets>>

\* somebody else removes a child of head
ExternalRemove ==
  /\ changes < MaxChanges
  /\ \E n \in Nodes :
       /\ InHead(head, n)
       /\ head' = Without(head, n)
       /\ records' = Append(records, Removed(n))
  /\ changes' = changes + 1
  /\ handler' = "remove"
  /\ UNCHANGED <<anchorsFlat, ret, call, calls, rendered, linked, stepVars,
                 isDark, watcher, disabled, htmlClass, sets>>

\* the application gives document.documentElement another theme class
SetClass ==
  /\ \E cls \in Classes :
       /\ cls # htmlClass
       /\ htmlClass' = cls
  /\ handler' = "class"
  /\ UNCHANGED <<anchorsFlat, ret, call, calls, rendered, linked, stepVars,
                 isDark, watcher, disabled, head, records, sets, changes>>

\* the observer's callback runs on the records queued since it ran last
Observe ==
  /\ records # <<>>
  /\ LET mutations == records
         dom0 == [head |-> head, records |-> <<>>]
         hasCustomStyleEl_light == hasCustomStyleEl(mutations, "light")
         dom1 == IF ~ hasCustomStyleEl_light THEN appendChild(dom0, "light")
                 ELSE dom0
         hasCustomStyleEl_dark == hasCustomStyleEl(mutations, "dark")
         dom2 == IF ~ hasCustomStyleEl_dark THEN appendChild(dom1, "dark")
                 ELSE dom1
     IN  /\ head' = dom2.head
         /\ records' = dom2.records
         /\ disabled' =
              [light |-> IF ~ hasCustomStyleEl_light
                           THEN ~ (htmlClass = "light")
                         ELSE disabled.light,
               dark |-> IF ~ hasCustomStyleEl_dark
                          THEN ~ (htmlClass = "dark")
                        ELSE disabled.dark]
  /\ handler' = "observe"
  /\ UNCHANGED <<anchorsFlat, ret, call, calls, rendered, linked, stepVars,
                 isDark, watcher, htmlClass, sets, changes>>

NextTheme ==
  \/ SetDark
  \/ RunWatcher
  \/ ExternalAppend
  \/ ExternalRemove
  \/ SetClass
  \/ Observe

SpecTheme == InitTheme /\ [][NextTheme]_vars

\* the callback of the observer is a microtask: once records are queued it
\* runs
SpecThemeFair == SpecTheme /\ WF_vars(Observe)

----------------------------------------------------------------------------
(* Properties of the flat list and of the forest.                          *)

\* the anchor the callback records for the match m
AnchorOf(m) ==
  [title |-> textNoTag(m.text).value,
   href |-> <<"#">> \o idNoEmoji(m.hasId, m.id, m.text),
   level |-> m.level]

\* the anchors of all the matches of the last call's HTML, left to right
OwnAnchors ==
  LET ms == MatchesFrom(call.str, 1)
  IN  [i \in 1..Len(ms) |-> AnchorOf(ms[i])]

\* a node without its children
Bare(node) == [title |-> node.title, href |-> node.href, level |-> node.level]

\* the forest read in pre-order: every node, then its children
RECURSIVE FlatOf(_)
FlatOf(tree) ==
  IF tree = <<>> THEN <<>>
  ELSE <<Bare(Head(tree))>> \o Head(tree).children \o FlatOf(Tail(tree))

\* for every anchor of the forest in pre-order, the pre-order position of
\* its parent, 0 for a top-level node
RECURSIVE ParentsOf(_, _)
ParentsOf(tree, offset) ==
  IF tree = <<>> THEN <<>>
  ELSE LET n == Len(Head(tree).children)
       IN  <<0>> \o [c \in 1..n |-> offset + 1] \o
           ParentsOf(Tail(tree), offset + 1 + n)

Max(S) == CHOOSE x \in S : \A y \in S : y <= x

\* the k-th smallest element of the set S of numbers
Kth(S, k) == CHOOSE i \in S : Cardinality({j \in S : j < i}) = k - 1

LevelOf(i) == DigitValue(anchorsFlat[i].level)

\* C1: the flat anchor list holds the matched headings in the order in
\* which they stand in the generated HTML: its i-th anchor is the anchor of
\* the i-th match from the left
InvC1 ==
  LET ms == MatchesFrom(call.str, 1)
  IN  /\ Len(anchorsFlat) <= Len(ms)
      /\ \A i \in 1..Len(anchorsFlat) : anchorsFlat[i] = AnchorOf(ms[i])
      /\ \A i, j \in 1..Len(ms) : i < j => ms[i].end < ms[j].start

\* the document "# A", "## B", "# C" gave A/1, B/2, C/1 in that order
WitC1 ==
  /\ call.value = <<"#", " ", "A", "\n", "#", "#", " ", "B", "\n", "#", " ", "C">>
  /\ ret.status = "returned"
  /\ [i \in 1..Len(anchorsFlat) |->
        <<anchorsFlat[i].title, anchorsFlat[i].level>>]
       = << <<<<"A">>, "1">>, <<<<"B">>, "2">>, <<<<"C">>, "1">> >>

\* the positions of html where the opening tag of an h1..h6 element stands
HeadingElements(html) ==
  {i \in 1..Len(html) :
     /\ i + 3 <= Len(html)
     /\ html[i] = "<"
     /\ LowerChar(html[i + 1]) = "h"
     /\ html[i + 2] \in {"1", "2", "3", "4", "5", "6"}
     /\ html[i + 3] \in SpaceSet \cup {">"}}

\* the opening tag at i, read from i + 4 on as [^>]* or as id="..."[^>]*,
\* ends at g
TagEndsAt(html, i, g) ==
  /\ html[g] = ">"
  /\ \/ \A k \in (i + 4)..(g - 1) : html[k] # ">"
     \/ /\ LitAtI(html, i + 4, <<"i", "d", "=", "\"">>)
        /\ \E q \in (i + 8)..(g - 1) :
             /\ html[q] = "\""
             /\ \A k \in (i + 8)..(q - 1) : html[k] # "\""
             /\ \A k \in (q + 1)..(g - 1) : html[k] # ">"

\* the element opened at i is closed by its </hN> on the line where its
\* opening tag ends
ClosedOnLine(html, i) ==
  \E g \in (i + 4)..Len(html) :
    /\ TagEndsAt(html, i, g)
    /\ \E e \in (g + 1)..Len(html) :
         /\ LitAtI(html, e, <<"<", "/", "h", html[i + 2], ">">>)
         /\ \A k \in (g + 1)..(e - 1) : html[k] \notin LineTerminators

\* position i lies inside a match that starts before it
Covered(i) ==
  \E k \in 1..Len(call.log) : call.log[k].start < i /\ i <= call.log[k].end

\* the entries of the flat list recorded for the element opened at i
EntriesAt(i) ==
  {k \in 1..Len(anchorsFlat) :
     call.log[k].start = i /\ anchorsFlat[k].level = call.str[i + 2]}

InvC3 ==
  /\ Len(anchorsFlat) <= Len(OwnAnchors)
  /\ \A i \in 1..Len(anchorsFlat) : anchorsFlat[i] = OwnAnchors[i]
  /\ ret.status = "returned" =>
       /\ anchorsFlat = OwnAnchors
       /\ FlatOf(ret.anchors) = OwnAnchors

\* a later call returned one anchor that the call before it, which left
\* several anchors in the shared list, did not have
WitC3 ==
  /\ calls >= 2
  /\ ret.status = "returned"
  /\ Len(call.before) >= 2
  /\ Len(anchorsFlat) = 1
  /\ \A i \in 1..Len(call.before) : call.before[i] # anchorsFlat[1]

\* the positions of the flat list that become top-level nodes: the first,
\* and every one whose level is at most the level of the first
TopIdx ==
  {i \in 1..Len(anchorsFlat) : i = 1 \/ LevelOf(i) <= LevelOf(1)}

\* C4: an anchor becomes a top-level node exactly when the forest is empty
\* or its level is at most the level of the first top-level node; every
\* other anchor becomes a child of the most recently added top-level node,
\* and no child has children
InvC4 ==
  ret.status = "returned" =>
    /\ Len(ret.anchors) = Cardinality(TopIdx)
    /\ \A k \in 1..Len(ret.anchors) :
         LET i == Kth(TopIdx, k)
             n == IF k = Len(ret.anchors) THEN Len(anchorsFlat) + 1
                  ELSE Kth(TopIdx, k + 1)
         IN  /\ DOMAIN ret.anchors[k] = {"title", "href", "level", "children"}
             /\ Bare(ret.anchors[k]) = anchorsFlat[i]
             /\ ret.anchors[k].children = Slice(anchorsFlat, i + 1, n - 1)
             /\ \A c \in 1..Len(ret.anchors[k].children) :
                  DOMAIN ret.anchors[k].children[c] = {"title", "href", "level"}

\* a forest of several top-level nodes, one of which has two children of
\* rising level side by side
WitC4 ==
  /\ ret.status = "returned"
  /\ Len(ret.anchors) >= 2
  /\ \E k \in 1..Len(ret.anchors) :
       /\ Len(ret.anchors[k].children) >= 2
       /\ DigitValue(ret.anchors[k].children[1].level)
            < DigitValue(ret.anchors[k].children[2].level)

\* C5: the forest read in pre-order, each top-level node followed by its
\* children, is the flat list: no anchor is lost, duplicated or reordered
InvC5 == ret.status = "returned" => FlatOf(ret.anchors) = anchorsFlat

\* a forest was built from a list whose levels jump up and down by two
\* or more
WitC5 ==
  /\ ret.status = "returned"
  /\ Len(anchorsFlat) >= 3
  /\ \E i \in 1..(Len(anchorsFlat) - 1) : LevelOf(i + 1) - LevelOf(i) >= 2
  /\ \E i \in 1..(Len(anchorsFlat) - 1) : LevelOf(i) - LevelOf(i + 1) >= 2

\* C6 as stated: the parent of every child is the closest earlier anchor
\* of the flat list with a smaller level
OrigC6 ==
  ret.status = "returned" =>
    LET P == ParentsOf(ret.anchors, 0)
    IN  \A j \in 1..Len(P) :
          P[j] # 0 =>
            LET S == {i \in 1..(j - 1) : LevelOf(i) < LevelOf(j)}
            IN  S # {} /\ P[j] = Max(S)

\* C6: the parent of every child is the most recently added top-level
\* node, that is the closest earlier anchor whose level is at most the
\* level of the first anchor; its level is smaller than the child's
ThmC6 ==
  ret.status = "returned" =>
    LET P == ParentsOf(ret.anchors, 0)
    IN  \A j \in 1..Len(P) :
          P[j] # 0 =>
            /\ P[j] = Max({i \in 1..(j - 1) : i \in TopIdx})
            /\ LevelOf(P[j]) < LevelOf(j)

\* a child whose closest earlier anchor of smaller level is not its parent
WitC6 ==
  /\ ret.status = "returned"
  /\ LET P == ParentsOf(ret.anchors, 0)
     IN  \E j \in 1..Len(P) :
           /\ P[j] # 0
           /\ P[j] # Max({i \in 1..(j - 1) : LevelOf(i) < LevelOf(j)})

----------------------------------------------------------------------------
(* Properties of one anchor: level, id and title.                          *)

\* the opening tag of the match m of the last call's HTML
OpeningTag(m) == SubSeq(call.str, m.start, m.end - 5 - Len(m.text))

\* where id=" stands in the tag, 0 when the tag has no id attribute
IdAttrAt(tag) == IndexOfLit(toLowerCase(tag), <<"i", "d", "=", "\"">>, 1)

\* the value of the id attribute of a tag that has one
IdValue(tag) ==
  LET a == IdAttrAt(tag) + 4
  IN  Slice(tag, a, IndexIn(tag, {"\""}, a) - 1)

\* t with every tag <...> removed and all text outside tags kept
RECURSIVE StripMarkup(_)
StripMarkup(t) ==
  LET a == IndexIn(t, {"<"}, 1)
      b == IF a = 0 THEN 0 ELSE IndexIn(t, {">"}, a)
  IN  IF b = 0 THEN t
      ELSE Slice(t, 1, a - 1) \o StripMarkup(Slice(t, b + 1, Len(t)))

\* t is one element <name ...>inner</name> around tag-free content
SingleWrap(t) ==
  LET lts == {i \in 1..Len(t) : t[i] = "<"}
      g == IndexIn(t, {">"}, 1)
      c == Max(lts)
      w == IndexNotIn(t, WordSet, 2)
  IN  /\ Cardinality(lts) = 2
      /\ t[1] = "<"
      /\ t[Len(t)] = ">"
      /\ g < c
      /\ w > 2
      /\ Slice(t, c, Len(t)) = <<"<", "/">> \o Slice(t, 2, w - 1) \o <<">">>

\* the content of the element of a text that is a single wrapping element
WrapInner(t) ==
  Slice(t, IndexIn(t, {">"}, 1) + 1, Max({i \in 1..Len(t) : t[i] = "<"}) - 1)

\* C7 as stated: every recorded anchor has a level between 1 and 6
OrigC7 == \A i \in 1..Len(anchorsFlat) : LevelOf(i) \in 1..6

\* C8 as stated: the id of a heading without an authored id is its text
\* with the tag markup removed, lowercased, every run of white space
\* replaced by one hyphen
OrigC8 ==
  \A i \in 1..Len(anchorsFlat) :
    IdAttrAt(OpeningTag(call.log[i])) = 0 =>
      anchorsFlat[i].href =
        <<"#">> \o HyphenateRuns(toLowerCase(StripMarkup(call.log[i].text)), 1)

\* C9 as stated: the id of a heading with an authored id is that id with
\* every emoji removed and no hyphen or white space at either end
OrigC9 ==
  \A i \in 1..Len(anchorsFlat) :
    IdAttrAt(OpeningTag(call.log[i])) # 0 =>
      anchorsFlat[i].href =
        <<"#">> \o TrimSet(RemoveSet(IdValue(OpeningTag(call.log[i])), EmojiSet),
                          SpaceHyphenSet)

\* C10 as stated: the title is the trimmed content of a single tag that
\* wraps the whole heading; of any other heading it is the inner HTML with
\* the tag markup removed and all the text kept
OrigC10 ==
  \A i \in 1..Len(anchorsFlat) :
    anchorsFlat[i].title =
      IF SingleWrap(call.log[i].text)
        THEN TrimSet(WrapInner(call.log[i].text), SpaceSet)
        ELSE StripMarkup(call.log[i].text)

----------------------------------------------------------------------------
(* Properties of the returned HTML.                                        *)

\* the heading parts of the returned content
HeadingParts ==
  {k \in 1..Len(ret.content) : ret.content[k].kind = "heading"}

\* the positions of a tag where an id attribute begins
IdAttrs(tag) ==
  {i \in 2..Len(tag) :
     LitAtI(tag, i, <<"i", "d", "=", "\"">>) /\ tag[i - 1] \in SpaceSet}

\* C11 as stated: the rebuilt opening tag of every matched heading carries
\* exactly one id attribute, the canonical id, and the attributes kept from
\* the original tag hold no id attribute
OrigC11 ==
  ret.status = "returned" =>
    \A k \in HeadingParts :
      /\ Cardinality(IdAttrs(HeadingOpenTag(ret.content[k]))) = 1
      /\ IdAttrs(<<" ">> \o ret.content[k].attrsNoId) = {}

\* C12: the heading pass changes matched headings only: the returned
\* string is made of the stretches of the parser's HTML that lie outside
\* the matches, unchanged and in their order, with one rebuilt heading
\* between two of them, and the flat list has one anchor per match, none
\* for heading markup the scan does not match
InvC12 ==
  ret.status = "returned" =>
    LET ms == MatchesFrom(call.str, 1)
        n == Len(ms)
    IN  /\ Len(anchorsFlat) = n
        /\ IF ret.content = <<>> THEN call.str = <<>>
           ELSE /\ Len(ret.content) = 2 * n + 1
                /\ \A j \in 1..(n + 1) :
                     ret.content[2 * j - 1] =
                       [kind |-> "text",
                        text |-> Slice(call.str,
                                       IF j = 1 THEN 1 ELSE ms[j - 1].end + 1,
                                       IF j = n + 1 THEN Len(call.str)
                                       ELSE ms[j].start - 1)]
                /\ \A j \in 1..n :
                     /\ ret.content[2 * j].kind = "heading"
                     /\ ret.content[2 * j].text = ms[j].text

\* a document with a heading tag the scan does not match, which stands
\* unchanged in the returned string, next to a heading that was rebuilt
WitC12 ==
  /\ ret.status = "returned"
  /\ HeadingParts # {}
  /\ Len(anchorsFlat) = Cardinality(HeadingParts)
  /\ \E k \in 1..Len(ret.content) :
       /\ ret.content[k].kind = "text"
       /\ IndexOfLit(ret.content[k].text,
                     <<"<", "h", "1", ">", "X", "<", "/", "h", "1", ">">>, 1) # 0

\* C13 as stated: the heading pass raises no error, whatever the heading
\* markup: every call returns
OrigC13 == calls > 0 => ret.status = "returned"

----------------------------------------------------------------------------
(* Properties of the code renderer.                                        *)

\* the empty marker elements of the rendered block
MarkerRows ==
  {i \in 1..Len(rendered.html) : LitAt(rendered.html, i, RowSpan)}

\* C14: the gutter of a rendered code block has one empty marker element
\* more than the code has line feeds that are not its last code point; a
\* line feed at the very end adds no row and empty code gives one row
InvC14 ==
  rendered.done =>
    Cardinality(MarkerRows) =
      Cardinality({i \in 1..(Len(rendered.code) - 1) :
                     rendered.code[i] = "\n"}) + 1

\* code with a line feed inside and one at its end was given two rows
WitC14 ==
  /\ rendered.done
  /\ rendered.code = <<"\n", "a", "\n">>
  /\ Cardinality(MarkerRows) = 2

\* the class list of an infostring: language-none for one blank token,
\* else language-<token> for every token that is not empty
ClassesOf(infostring) ==
  LET tokens == SplitAt(infostring, ",", 1)
      kept == SelectSeq(tokens, LAMBDA t : t # <<>>)
  IN  IF Len(tokens) = 1 /\ IndexNotIn(tokens[1], SpaceSet, 1) = 0
        THEN <<"l", "a", "n", "g", "u", "a", "g", "e", "-", "n", "o", "n", "e">>
        ELSE Join([i \in 1..Len(kept) |->
                     <<"l", "a", "n", "g", "u", "a", "g", "e", "-">> \o kept[i]],
                  <<" ">>)

\* C15 as stated: the pre and the code element of a rendered block both
\* carry the class list of the infostring, in which an empty token has no
\* class
OrigC15 ==
  rendered.done =>
    LitAt(rendered.html, 1,
          CodeOpen \o ClassesOf(rendered.infostring) \o CodeClassOpen
          \o ClassesOf(rendered.infostring) \o CodeBodyOpen)

\* the first position >= p of s where lit stands, 0 when there is none
FirstAt(s, lit, p) ==
  LET S == {i \in p..Len(s) : LitAt(s, i, lit)}
  IN  IF S = {} THEN 0 ELSE CHOOSE i \in S : \A j \in S : i <= j

\* the code as the rendered block holds it: what stands between the
\* opening of the code element and the gutter
CodeBody ==
  LET a == FirstAt(rendered.html, CodeBodyOpen, 1) + Len(CodeBodyOpen)
  IN  Slice(rendered.html, a, FirstAt(rendered.html, RowsOpen, a) - 1)

\* the first token of the infostring
FirstToken == SplitAt(rendered.infostring, ",", 1)[1]

----------------------------------------------------------------------------
(* Properties of useMarked: the mode, the fenced block, the empty text.    *)

\* the name hint has an extension, the text after its last dot, and that
\* extension is md in any case of its letters
HasMdExtension(title) ==
  \E i \in 1..Len(title) :
    /\ title[i] = "."
    /\ Len(title) = i + 2
    /\ title[i + 1] \in {"m", "M"}
    /\ title[i + 2] \in {"d", "D"}

\* C17: a call returns isMarkdown true exactly when the extension of its
\* name hint is md, whatever the case of the letters; the default name
\* hint is markdown, and no name hint makes a call fail: a call that does
\* not return failed in the callback of the heading scan
InvC17 ==
  /\ ret.status = "returned" =>
       /\ ret.isMarkdown = HasMdExtension(call.title)
       /\ call.title = DefaultTitle => ret.isMarkdown
  /\ ret.status = "threw" => Len(call.log) = Len(anchorsFlat) + 1

\* a call under the name hint a.MD returned isMarkdown true
WitC17 ==
  /\ ret.status = "returned"
  /\ call.title = <<"a", ".", "M", "D">>
  /\ ret.isMarkdown

\* C18 as stated: under a name hint that is not markdown the returned
\* HTML is one code container, classed by the language of the name hint,
\* that holds the whole text
OrigC18 ==
  (ret.status = "returned" /\ ~ ret.isMarkdown) =>
    contentStr(ret.content) =
      renderCode(call.value, ReplaceVue(TitleExtension(call.title)))

\* C19 as stated: a call with the empty text returns the empty string
\* and no anchors, whatever its name hint
OrigC19 ==
  (calls > 0 /\ call.value = <<>>) =>
    /\ ret.status = "returned"
    /\ contentStr(ret.content) = <<>>
    /\ ret.anchors = <<>>

\* C20 as stated: a call with the empty text hands nothing to the parser
OrigC20 == (calls > 0 /\ call.value = <<>>) => call.parses = <<>>

\* C21 as stated: whatever the name hint, a text that begins with a
\* zero-width code point reaches the parser without that one code point
\* and otherwise as it would have reached it
OrigC21 ==
  (calls > 0 /\ call.value # <<>> /\ call.value[1] \in ZeroWidthSet) =>
    call.parses =
      <<mdStr(Tail(call.value), ReplaceVue(TitleExtension(call.title)))>>

----------------------------------------------------------------------------
(* Properties of the renderers as functions.                               *)

\* the markup of a link: the fixed class, the href and the text
LinkMarkup(href, text) ==
  <<"<", "a", " ", "c", "l", "a", "s", "s", "=", "\"", "a", "n", "t", "-",
    "t", "y", "p", "o", "g", "r", "a", "p", "h", "y", "\"", " ", "h", "r",
    "e", "f", "=", "\"">> \o href \o <<"\"", ">">> \o text
  \o <<"<", "/", "a", ">">>

----------------------------------------------------------------------------
(* The returned forest as a value, its freshness, and overlapping calls.   *)

\* the forest that call c returned
Returned(c) == cache.arrays[flights[c].anchors]

\* C23: once built, the array of a forest is never written again, and a
\* call that has returned keeps the array it returned: no later call and no
\* later change of the flat list changes the forest an earlier call
\* returned
InvC23 ==
  [][/\ \A i \in 1..Len(cache.arrays) : cache'.arrays[i] = cache.arrays[i]
     /\ \A c \in 1..MaxFlights :
          (flights[c].pc = "done" /\ flights'[c].pc = "done")
            => flights'[c].anchors = flights[c].anchors]_vars

\* a call has returned a forest with an entry, and a later call has since
\* reset the list and returned another forest
WitC23 ==
  \E c \in 1..MaxFlights :
    /\ flights[c].pc = "done"
    /\ Returned(c) # <<>>
    /\ flights[c].anchors < Len(cache.arrays)
    /\ cache.arrays[Len(cache.arrays)] # Returned(c)
    /\ anchorsFlat # FlatOf(Returned(c))

\* C24: the forest a call returns is the reduction of the flat list as it
\* stands when the call returns, after the resets and the pushes made until
\* then, whatever calls came before
InvC24 ==
  [][\A c \in 1..MaxFlights :
       (Scanning(c) /\ flights'[c].pc = "done")
         => cache'.arrays[flights'[c].anchors] = anchorsTree(anchorsFlat')]_vars

\* a call has returned a forest after an earlier read of the tree gave
\* another one: the computed had a kept value to go stale
WitC24 ==
  \E c \in 1..MaxFlights :
    /\ flights[c].pc = "done"
    /\ flights[c].anchors > 1
    /\ Returned(c) # cache.arrays[flights[c].anchors - 1]
    /\ Returned(c) = anchorsTree(anchorsFlat)

\* C26: a call during which no other call was under way returns the forest
\* of the anchors of its own document; nothing protects the others, and a
\* call overlapped by another can return a forest that is not its own
InvC26 ==
  \A c \in 1..MaxFlights :
    (flights[c].pc = "done" /\ flights[c].alone)
      => Returned(c) = anchorsTree(flights[c].own)

\* a call overlapped by another one has returned a forest that is not that
\* of its own anchors
WitC26 ==
  \E c \in 1..MaxFlights :
    /\ flights[c].pc = "done"
    /\ ~ flights[c].alone
    /\ Returned(c) # anchorsTree(flights[c].own)

----------------------------------------------------------------------------
(* The one id of a heading.                                                *)

\* what the callback returned for the matched headings, left to right
HeadingOuts ==
  LET hs == SelectSeq(ret.content, LAMBDA part : part.kind = "heading")
  IN  [k \in 1..Len(hs) |-> HeadingOut(hs[k])]

\* what stands in s between the first open after position p and the first
\* close after it
Between(s, open, close, p) ==
  LET a == FirstAt(s, open, p) + Len(open)
  IN  Slice(s, a, FirstAt(s, close, a) - 1)

\* the id attribute the rewritten opening tag ends with
TagId(out) ==
  LET e == FirstAt(out, HeadClass, 1)
      S == {i \in 1..e : LitAt(out, i, HeadId) /\ i + Len(HeadId) <= e}
      a == CHOOSE i \in S : \A j \in S : j <= i
  IN  Slice(out, a + Len(HeadId), e - 1)

\* the identity, the name and the data hash of the injected marker
MarkerId(out) == Between(out, HeadAnchor, HeadName, 1)

MarkerName(out) ==
  Between(out, HeadName, <<"\"", " ", "c", "l", "a", "s", "s", "=", "\"",
                           "a", "n", "c", "h", "o", "r", "\"">>,
          FirstAt(out, HeadAnchor, 1))

MarkerHash(out) ==
  Between(out, <<"d", "a", "t", "a", "-", "h", "a", "s", "h", "=", "\"">>,
          <<"\"", " ", "c", "l", "a", "s", "s", "=", "\"", "i", "c", "o",
            "n", "f", "o", "n", "t">>, 1)

----------------------------------------------------------------------------
(* The levels in the forest.                                               *)

\* C28: in the forest built from any flat list the level of every child is
\* greater than the level of its parent, and the level of every top-level
\* node is at most the level of the first top-level node
InvC28 ==
  ret.status = "returned" =>
    \A k \in 1..Len(ret.anchors) :
      /\ DigitValue(ret.anchors[k].level) <= DigitValue(ret.anchors[1].level)
      /\ \A c \in 1..Len(ret.anchors[k].children) :
           DigitValue(ret.anchors[k].children[c].level)
             > DigitValue(ret.anchors[k].level)

\* a forest with a top-level node of the first node's level, one of a
\* smaller level, and a child under a node that is not the first
WitC28 ==
  /\ ret.status = "returned"
  /\ \E k \in 2..Len(ret.anchors) :
       ret.anchors[k].level = ret.anchors[1].level
  /\ \E k \in 2..Len(ret.anchors) :
       /\ DigitValue(ret.anchors[k].level) < DigitValue(ret.anchors[1].level)
       /\ ret.anchors[k].children # <<>>

----------------------------------------------------------------------------
(* The theme.                                                              *)

\* C27: when the watcher's callback has run for the value v of isDark,
\* prismLight.disabled is v and prismDark.disabled is not v, whatever was
\* set and observed before; an assignment of the value isDark holds
\* already changes neither flag and queues nothing
InvC27 ==
  /\ [](handler = "watch"
         => disabled = [light |-> isDark, dark |-> ~ isDark])
  /\ [][(sets' # sets /\ isDark' = isDark)
          => UNCHANGED <<disabled, watcher>>]_vars

\* the flag was set to true and back to false, the observer has run in
\* between, and the watcher's callback has just run for false
WitC27 ==
  /\ handler = "watch"
  /\ ~ isDark
  /\ sets >= 2
  /\ changes >= 1
  /\ records = <<>>
  /\ htmlClass = "dark"

\* C29 as stated: in every state, from the load of the module on, exactly
\* one of the two style elements is enabled, and it is the dark one
\* exactly when isDark is true
OrigC29 ==
  /\ disabled.light # disabled.dark
  /\ ~ disabled.dark <=> isDark

\* C30 as stated: after any change that others make to the children of
\* head the observer's callback runs finitely often: from some point on no
\* record is queued, and both style elements are children of head
OrigC30 ==
  <>[](/\ records = <<>>
       /\ InHead(head, "light")
       /\ InHead(head, "dark"))

====
